---- MODULE Spec2Model ----
(***************************************************************************)
(* TeamTemp historical scraper: the file-backed source registry and the    *)
(* TTL cache of scrapper_api.py, and the Postgres registry of              *)
(* storage_pg.py.                                                          *)
(*                                                                         *)
(* Spec      the request handlers run one after another (one client).      *)
(* SpecPg    the Postgres-backed registry.                                 *)
(* SpecConc  the handlers run on worker threads and interleave between     *)
(*           their accesses of the shared _cache dict and the file.        *)
(* SpecFs    _atomic_write_json step by step, with I/O failures and        *)
(*           process crashes.                                              *)
(* SpecExport the handlers in sequence with GET /export.xlsx among them.   *)
(* SpecDate  one call of _date_from_cell on a cell value.                  *)
(* SpecRec   one call of _rows_to_records on a payload.                    *)
(***************************************************************************)
EXTENDS Integers, Sequences, FiniteSets, TLC

(* ------------------------------ bounds --------------------------------- *)

\* Clock ticks the model lets pass after start-up.
MaxTicks == 1

\* Requests the model lets the concurrent threads begin.
MaxCalls == 3

\* uuid4() calls the model lets storage_pg make.
MaxUuids == 3

(* -------------------------- program constants -------------------------- *)

\* CACHE_TTL = int(os.getenv("CACHE_TTL_SEC", "600")): any integer the
\* deployment sets; the model counts time in units of one TTL.
CACHE_TTL == 1

\* time.time() at start-up: seconds since the epoch, far beyond the TTL, so
\* the initial slot {"ts": 0.0, "data": []} is older than the TTL.
StartTime == CACHE_TTL + 1

MaxTime == StartTime + MaxTicks

\* DEFAULT_SOURCES, scaled to two entries (seven in the source), listed
\* out of key order as in the source.
DEFAULT_SOURCES ==
    << [id |-> "", url |-> "b", tribe |-> "u", created_ts |-> 0],
       [id |-> "", url |-> "a", tribe |-> "t", created_ts |-> 0] >>

(* ------------------------------ strings -------------------------------- *)

\* The url strings a POST /sources of the model carries: "" is the empty
\* url and " a" is "a" with surrounding whitespace.
RawUrls == {"b", " a", ""}

\* The urls a stored Source can have.
Urls == {"a", "b"}

\* The tribe strings of the model; "T" is "t" in upper case.
Tribes == {"t", "T", "u"}

\* The tribes a POST /sources of the model carries.
AddTribes == {"t", "u"}

\* str.strip() on the model's strings.
Strip(s) == IF s = " a" THEN "a" ELSE s

\* str.lower() on the model's strings.
Lower(s) == IF s = "T" THEN "t" ELSE s

\* The position of a (lower-cased) model string in Python's string order.
StrOrd(s) ==
    CASE s = ""   -> 0
      [] s = " a" -> 1
      [] s = "T"  -> 2
      [] s = "a"  -> 3
      [] s = "b"  -> 4
      [] s = "t"  -> 5
      [] s = "u"  -> 6
      [] OTHER    -> 7

\* hashlib.sha1(url.strip())[:12]: a function of the stripped url.
MakeId(url) ==
    CASE Strip(url) = "a" -> "sha_a"
      [] Strip(url) = "b" -> "sha_b"
      [] OTHER            -> "sha_other"

(* ---------------------- file-backed registry --------------------------- *)

\* A row as read from SOURCES_JSON or the sources file: a missing, None or
\* empty id is "", a missing or zero created_ts is 0.  A list item that is
\* not a dict is dropped by _norm_row exactly as a row with an empty url is.
NormOk(r) == Strip(r.url) # ""

NormRow(r, t) ==
    [ id         |-> IF r.id # "" THEN r.id ELSE MakeId(Strip(r.url)),
      url        |-> Strip(r.url),
      tribe      |-> Strip(r.tribe),
      created_ts |-> IF r.created_ts # 0 THEN r.created_ts ELSE t ]

\* The de-duplication loop of _ensure_rows: the first row of a url wins.
RECURSIVE DedupeRows(_, _, _, _)
DedupeRows(rows, seen, out, t) ==
    IF rows = <<>> THEN out
    ELSE LET r  == Head(rows)
             rr == NormRow(r, t)
         IN  IF ~NormOk(r) THEN DedupeRows(Tail(rows), seen, out, t)
             ELSE IF rr.url \in seen THEN DedupeRows(Tail(rows), seen, out, t)
             ELSE DedupeRows(Tail(rows), seen \cup {rr.url}, Append(out, rr), t)

\* The sort key of _ensure_rows: (tribe.lower(), url.lower()).
KeyLeq(x, y) ==
    LET xt == StrOrd(Lower(x.tribe))
        yt == StrOrd(Lower(y.tribe))
        xu == StrOrd(Lower(x.url))
        yu == StrOrd(Lower(y.url))
    IN  xt < yt \/ (xt = yt /\ xu <= yu)

\* list.sort(key=...) is stable: a row goes after every row whose key is
\* not greater than its own.
RECURSIVE InsertRow(_, _)
InsertRow(sorted, r) ==
    IF sorted = <<>> THEN <<r>>
    ELSE IF KeyLeq(Head(sorted), r)
         THEN <<Head(sorted)>> \o InsertRow(Tail(sorted), r)
         ELSE <<r>> \o sorted

RECURSIVE SortRows(_, _)
SortRows(rows, acc) ==
    IF rows = <<>> THEN acc
    ELSE SortRows(Tail(rows), InsertRow(acc, Head(rows)))

\* _ensure_rows(rows) evaluated at time t.
EnsureRows(rows, t) == SortRows(DedupeRows(rows, {}, <<>>, t), <<>>)

\* The value of a file that holds the JSON list rows.
FileOf(rows) == [kind |-> "list", rows |-> rows]

\* _initial_rows(): SOURCES_JSON when it is set and parses to a list; else
\* the file when it exists and parses; else DEFAULT_SOURCES.
InitialRows(sj, f, t) ==
    IF sj.kind = "list" THEN EnsureRows(sj.rows, t)
    ELSE IF f.kind = "list" THEN EnsureRows(f.rows, t)
    ELSE EnsureRows(DEFAULT_SOURCES, t)

\* _read_sources_file(): the rows it returns ...
ReadRows(sj, f, t) == InitialRows(sj, f, t)

\* Mutant of FileAfterRead: the file made on a first read is an empty list.
FileAfterReadEmpties(sj, f, t) ==
    IF f.kind = "absent" THEN FileOf(<<>>) ELSE f

\* ... and the file it leaves: written only when no file exists.
FileAfterRead(sj, f, t) ==
    IF f.kind = "absent" THEN FileOf(ReadRows(sj, f, t)) ELSE f

\* _write_sources_file(rows): the file it leaves.
WriteSourcesFile(rows, t) == FileOf(EnsureRows(rows, t))

\* The list add_source builds from the rows it read (lines 151-153).
AddRows(rows, url, tribe, t) ==
    Append(SelectSeq(rows, LAMBDA r : r.url # Strip(url)),
           [ id |-> MakeId(url), url |-> Strip(url),
             tribe |-> Strip(tribe), created_ts |-> t ])

\* The list delete_source builds from the rows it read (line 159).
DeleteRows(rows, sid) == SelectSeq(rows, LAMBDA s : s.id # sid)

(* ------------------------------ scraping ------------------------------- *)

\* What a fetch of a page can meet: "http_error", an exception out of
\* scrape_one (a transport error, raise_for_status, or a fault while the
\* payload is read, such as a cols that is not a list); "no_payload", a
\* page in which _extract_payload finds or decodes nothing and returns None;
\* "rows", a payload that yields records.
Pages == {"http_error", "no_payload", "rows"}

Rec(d, team, v, tribe) == [date |-> d, team |-> team, value |-> v, tribe |-> tribe]

\* scrape_one(url, tribe) on page p: raised tells whether it raises.
ScrapeOne(url, tribe, p) ==
    CASE p = "http_error"  -> [raised |-> TRUE,  recs |-> <<>>]
      [] p = "no_payload"  -> [raised |-> FALSE, recs |-> <<>>]
      [] OTHER             -> [raised |-> FALSE,
                               recs |-> << Rec("d1", "A", 1, tribe) >>]

\* The loop of get_data (lines 379-384): try scrape_one, append its
\* records; except Exception: pass.
\* acc.merged is the list built so far, acc.tried the urls fetched so far.

\* Mutant of Merge: the exception of one source ends the loop.
RECURSIVE MergeAborts(_, _, _)
MergeAborts(rows, pages, acc) ==
    IF rows = <<>> THEN acc
    ELSE LET s == Head(rows)
             r == ScrapeOne(s.url, s.tribe, pages[s.url])
             t == Append(acc.tried, s.url)
         IN  IF r.raised
             THEN [acc EXCEPT !.tried = t]
             ELSE MergeAborts(Tail(rows), pages,
                              [merged |-> acc.merged \o r.recs, tried |-> t])

RECURSIVE Merge(_, _, _)
Merge(rows, pages, acc) ==
    IF rows = <<>> THEN acc
    ELSE LET s == Head(rows)
             r == ScrapeOne(s.url, s.tribe, pages[s.url])
             t == Append(acc.tried, s.url)
         IN  IF r.raised
             THEN Merge(Tail(rows), pages, [acc EXCEPT !.tried = t])
             ELSE Merge(Tail(rows), pages,
                        [merged |-> acc.merged \o r.recs, tried |-> t])

\* A scrape round over rows: its merged list and the urls it fetched.
Round(rows, pages) == Merge(rows, pages, [merged |-> <<>>, tried |-> <<>>])

\* The cache test of get_data (line 376) at time t on slot c.
CacheHit(force, t, c) ==
    ~force /\ (t - c.ts) < CACHE_TTL /\ c.data # <<>>


\* The three writes get_data and the mutating handlers make to _cache.

\* Mutant of PublishTs: the round's time is not stored.
PublishTsForgets(c, t) == c

\* _cache["ts"] = now (line 385)
PublishTs(c, t) == [c EXCEPT !.ts = t]

\* _cache["data"] = merged (line 386)
PublishData(c, merged) == [c EXCEPT !.data = merged]

\* Mutant of InvalidateData: the handler leaves the cache as it is.
InvalidateKeeps(c) == c

\* _cache["data"] = [] (lines 363 and 369)
InvalidateData(c) == [c EXCEPT !.data = <<>>]

(* ---------------------------- date decoding ---------------------------- *)

\* Text is a sequence of characters, each a one-character string.
DigitChars == <<"0", "1", "2", "3", "4", "5", "6", "7", "8", "9">>

IsDigit(c) == \E k \in 1..10 : DigitChars[k] = c

\* \s of the regular expression, on the characters of the model.
IsSpace(c) == c = " "

\* The character of s at i; "" past either end.
At(s, i) == IF i \in 1..Len(s) THEN s[i] ELSE ""

\* int() of one digit.
DigitVal(c) == (CHOOSE k \in 1..10 : DigitChars[k] = c) - 1

\* int() of a run of digits.
RECURSIVE ToInt(_)
ToInt(ds) ==
    IF ds = <<>> THEN 0
    ELSE 10 * ToInt(SubSeq(ds, 1, Len(ds) - 1)) + DigitVal(ds[Len(ds)])

\* str(n) for n >= 0.
RECURSIVE IntText(_)
IntText(n) ==
    IF n < 10 THEN <<DigitChars[n + 1]>>
    ELSE IntText(n \div 10) \o <<DigitChars[(n % 10) + 1]>>

\* f"{n:0wd}": zeros in front up to width w, no digit cut.
RECURSIVE Pad(_, _)
Pad(txt, w) == IF Len(txt) >= w THEN txt ELSE Pad(<<"0">> \o txt, w)

\* \s* from i: the index of the first character that is not a space.
RECURSIVE SkipSpace(_, _)
SkipSpace(s, i) == IF IsSpace(At(s, i)) THEN SkipSpace(s, i + 1) ELSE i

\* (\d{1,2}) at i, greedy: how many digits it takes (0: no match).
Digits12(s, i) ==
    IF ~IsDigit(At(s, i)) THEN 0
    ELSE IF IsDigit(At(s, i + 1)) THEN 2 ELSE 1

\* The index of the last character of s that is not a space (0: none).
RECURSIVE LastInk(_, _)
LastInk(s, i) ==
    IF i = 0 THEN 0 ELSE IF IsSpace(s[i]) THEN LastInk(s, i - 1) ELSE i

\* A value of a JSON cell: t is "str", "num" or "none" (null or absent);
\* s the text of a string, n the number.
StrVal(s) == [t |-> "str", s |-> s, n |-> 0]
NumVal(n) == [t |-> "num", s |-> <<>>, n |-> n]
NoVal == [t |-> "none", s |-> <<>>, n |-> 0]

\* What _date_from_cell returns: a date text, or None.
NotADate == [ok |-> FALSE, s |-> <<>>]

\* _date_from_cell has not been called yet.
NotDecoded == [ok |-> FALSE, s |-> <<"?">>]
IsoDate(y, mo, d) ==
    [ok |-> TRUE,
     s |-> Pad(IntText(y), 4) \o <<"-">> \o Pad(IntText(mo), 2)
              \o <<"-">> \o Pad(IntText(d), 2)]

\* DATE_STR_RE.match(s) (line 169), the pattern
\*   ^\s*Date\((\d{4}),\s*(\d{1,2}),\s*(\d{1,2}).*?\)\s*$
\* read left to right; .*?\)\s*$ matches when the last character that is
\* not a space is a ")" at or after the end of the day group.
DateMatch(s) ==
    LET i0 == SkipSpace(s, 1)
        iy == i0 + 5
        i1 == SkipSpace(s, iy + 5)
        nm == Digits12(s, i1)
        i2 == SkipSpace(s, i1 + nm + 1)
        nd == Digits12(s, i2)
        e  == LastInk(s, Len(s))
    IN  IF /\ SubSeq(s, i0, IF i0 + 4 <= Len(s) THEN i0 + 4 ELSE i0 - 1)
                 = <<"D", "a", "t", "e", "(">>
           /\ \A k \in iy..(iy + 3) : IsDigit(At(s, k))
           /\ At(s, iy + 4) = ","
           /\ nm > 0
           /\ At(s, i1 + nm) = ","
           /\ nd > 0
           /\ e >= i2 + nd
           /\ s[e] = ")"
        THEN [ok |-> TRUE, y |-> SubSeq(s, iy, iy + 3),
              m |-> SubSeq(s, i1, i1 + nm - 1), d |-> SubSeq(s, i2, i2 + nd - 1)]
        ELSE [ok |-> FALSE, y |-> <<>>, m |-> <<>>, d |-> <<>>]

\* _date_from_cell(v), lines 196-202
DateFromCell(v) ==
    IF v.t = "str"
    THEN LET mm == DateMatch(v.s)
         IN  IF mm.ok
             THEN IsoDate(ToInt(mm.y), ToInt(mm.m) + 1, ToInt(mm.d))
             ELSE NotADate
    ELSE NotADate

\* The texts given to _date_from_cell are put together from parts:
\* lead, head, y, sep, m, d, tail, close, trail, as
\*   lead head y sep m sep d tail close trail.
DateText(pt) ==
    pt.lead \o pt.head \o pt.y \o pt.sep \o pt.m \o pt.sep \o pt.d
            \o pt.tail \o pt.close \o pt.trail

Leads == { <<>>, <<" ">> }
Heads == { <<"D", "a", "t", "e", "(">>, <<"d", "a", "t", "e", "(">> }
Years == { <<"2", "0", "2", "4">>, <<"0", "0", "0", "7">>,
           <<"2", "0", "2">>, <<"2", "0", "2", "4", "5">> }
Seps == { <<",">>, <<",", " ">> }
Months == { <<"0">>, <<"0", "0">>, <<"9">>, <<"1", "1">>, <<"1", "2">>,
            <<"9", "9">>, <<"1", "1", "1">> }
Days == { <<"5">>, <<"0", "5">>, <<"3", "1">>, <<"1", "2", "3">>, <<>> }
Tails == { <<>>, <<",", "1", "0">>, <<"x">>, <<")", "x">> }
Closes == { <<")">>, <<>> }
Trails == { <<>>, <<" ">>, <<"x">> }

DateParts ==
    [ lead : Leads, head : Heads, y : Years, sep : Seps, m : Months,
      d : Days, tail : Tails, close : Closes, trail : Trails ]

NoParts ==
    [ lead |-> <<>>, head |-> <<>>, y |-> <<>>, sep |-> <<>>, m |-> <<>>,
      d |-> <<>>, tail |-> <<>>, close |-> <<>>, trail |-> <<>> ]

\* A cell value with the parts it was put together from (history).
NoCell == [v |-> NoVal, parts |-> NoParts]

\* The values _date_from_cell is given: texts, a number, null.
DateCells ==
    { [v |-> StrVal(DateText(pt)), parts |-> pt] : pt \in DateParts }
    \cup { [v |-> NumVal(5), parts |-> NoParts], NoCell }

(* --------------------------- record building -------------------------- *)

\* A column of the payload: its "label" and "id" ("" when absent or empty).
Col(label, id) == [label |-> label, id |-> id]

\* f"col{i}"
ColName(i) == <<"col1", "col2", "col3">>[i]

\* line 220: str(c.get("label") or c.get("id") or f"col{i}") of column i
\* after the date column.
LabelOf(c, i) ==
    IF c.label # "" THEN c.label ELSE IF c.id # "" THEN c.id ELSE ColName(i)

\* s.strip().lower() on the labels of the model.
StripLower(s) ==
    IF s \in {"average", "Average", " AVERAGE "} THEN "average"
    ELSE IF s = "A" THEN "a" ELSE s

\* lines 220-222: the labels of cols[1:], the last dropped when it is
\* "average".
TeamLabels(cols) ==
    LET labels == [i \in 1..(Len(cols) - 1) |-> LabelOf(cols[i + 1], i)]
    IN  IF labels # <<>> /\ StripLower(labels[Len(labels)]) = "average"
        THEN SubSeq(labels, 1, Len(labels) - 1)
        ELSE labels

\* A cell of a row: dict is FALSE for a JSON null in the place of the cell;
\* v is its "v", f its "f" ("" when absent).
Cell(v, f) == [dict |-> TRUE, v |-> v, f |-> f]
NullCell == [dict |-> FALSE, v |-> NoVal, f |-> ""]

\* _parse_stats(fmt), lines 204-214, on the annotations of the model:
\* "stats" stands for "Min: 1, Max: 2, 3 Responses"; None is -1.
ParseStats(fmt) ==
    IF fmt = "stats" THEN [responses |-> 3, min_value |-> 1, max_value |-> 2]
    ELSE [responses |-> -1, min_value |-> -1, max_value |-> -1]

\* Record(...) of lines 238-246
BuiltRec(d, team, v, tribe, st) ==
    [ date |-> d, team |-> team, value |-> v, tribe |-> tribe,
      responses |-> st.responses, min_value |-> st.min_value,
      max_value |-> st.max_value ]

\* lines 228-249: the records of one row, from team column j on. A cell
\* past the end of the row, a cell that is no dict, a null value and a
\* value float() refuses (the texts of the model) add nothing.
RECURSIVE RowRecords(_, _, _, _, _)
RowRecords(labels, cells, d, tribe, j) ==
    IF j > Len(labels) THEN <<>>
    ELSE LET rest == RowRecords(labels, cells, d, tribe, j + 1)
         IN  IF j + 1 > Len(cells) THEN rest
             ELSE IF ~cells[j + 1].dict THEN rest
             ELSE IF cells[j + 1].v.t # "num" THEN rest
             ELSE << BuiltRec(d, labels[j], cells[j + 1].v.n, tribe,
                              ParseStats(cells[j + 1].f)) >> \o rest

\* line 227: cells[0].get("v") raises when cells[0] is no dict.
FirstCellRaises(cells) == cells # <<>> /\ ~cells[1].dict

\* line 227: the date of a row, today's when the cell holds none.
RowDate(cells, today) ==
    LET r == DateFromCell(cells[1].v) IN IF r.ok THEN r.s ELSE today

\* lines 224-250: the loop over the rows; raised tells that an exception
\* left _rows_to_records, and then nothing is returned.
RECURSIVE BuildRows(_, _, _, _, _)
BuildRows(labels, rows, tribe, today, out) ==
    IF rows = <<>> THEN [done |-> TRUE, raised |-> FALSE, recs |-> out]
    ELSE LET cells == Head(rows)
         IN  IF cells = <<>>
             THEN BuildRows(labels, Tail(rows), tribe, today, out)
             ELSE IF FirstCellRaises(cells)
             THEN [done |-> TRUE, raised |-> TRUE, recs |-> <<>>]
             ELSE BuildRows(labels, Tail(rows), tribe, today,
                      out \o RowRecords(labels, cells,
                                        RowDate(cells, today), tribe, 1))

\* _rows_to_records(payload, tribe), lines 216-250, run on the day today.
\* p.cols holds the columns, p.rows the "c" of each row.
RowsToRecords(p, tribe, today) ==
    IF p.cols = <<>> \/ p.rows = <<>>
    THEN [done |-> TRUE, raised |-> FALSE, recs |-> <<>>]
    ELSE BuildRows(TeamLabels(p.cols), p.rows, tribe, today, <<>>)

\* time.strftime("%Y-%m-%d") on the day of the run.
Today == <<"2", "0", "2", "6", "-", "0", "3", "-", "0", "9">>

NoPayload == [cols |-> <<>>, rows |-> <<>>]

NotBuilt == [done |-> FALSE, raised |-> FALSE, recs |-> <<>>]

\* The payloads given to _rows_to_records.
DateCol == Col("Date", "")

ColLists ==
    { <<>>,
      << DateCol, Col("A", "") >>,
      << DateCol, Col("A", ""), Col("Average", "") >>,
      << DateCol, Col("Average", ""), Col("Average", "") >>,
      << DateCol, Col(" AVERAGE ", ""), Col("A", ""), Col("average", "") >>,
      << DateCol, Col("", "A"), Col("", "") >>,
      << DateCol, Col("average", ""), Col("A", "") >> }

GoodDate ==
    StrVal(<<"D", "a", "t", "e", "(", "2", "0", "2", "4", ",", "0", ",", "5", ")">>)

BadDate == StrVal(<<"n", "/", "a">>)

FirstCells ==
    { NullCell, Cell(NoVal, ""), Cell(NumVal(5), ""), Cell(BadDate, ""),
      Cell(GoodDate, "") }

TeamCells ==
    { NullCell, Cell(NoVal, ""), Cell(NumVal(7), "stats"),
      Cell(StrVal(<<"x">>), "") }

RowsOfCells ==
    { <<f>> : f \in FirstCells }
    \cup { <<f, a>> : f \in FirstCells, a \in TeamCells }
    \cup { <<f, a, b>> : f \in FirstCells, a \in TeamCells, b \in TeamCells }

RowLists ==
    { <<>> } \cup { <<r>> : r \in RowsOfCells }
    \cup { <<r, q>> : r \in RowsOfCells, q \in RowsOfCells }

Payloads == [cols : ColLists, rows : RowLists]

(* ------------------------------- state --------------------------------- *)

VARIABLES
    now,          \* time.time()
    cache,        \* _cache: [ts, data]
    sourcesJson,  \* SOURCES_JSON, read once at import
    file,         \* the contents of SOURCES_FILE
    lastOp,       \* history: the last request handled and what it returned
    pgTable,      \* storage_pg: the rows of table sources
    pgNext,       \* storage_pg: how many uuids uuid4() has handed out
    thr,          \* per worker thread: where its handler stands, its locals
    ncalls,       \* history: requests begun so far
    tag,          \* history: which round wrote _cache's ts and its data
    regVer,       \* history: writes of the sources file by add or delete
    retVer,       \* history: the latest such write whose handler returned
    wr,           \* _atomic_write_json in steps: where the writer stands
    tmp,          \* the temp file NamedTemporaryFile made beside the file
    wold,         \* history: the sources file when the current write began
    wnew,         \* history: the list the current write is writing
    lastFault,    \* history: the step at which the last write broke off
    cell,         \* the value last given to _date_from_cell, with its parts
    iso,          \* what _date_from_cell returned for it
    payload,      \* the payload last given to _rows_to_records
    built         \* what _rows_to_records did with it

seqVars == <<now, cache, sourcesJson, file, lastOp>>

pgVars == <<pgTable, pgNext>>

concVars == <<thr, ncalls, tag, regVer, retVer>>

fsVars == <<wr, tmp, wold, wnew, lastFault>>

pureVars == <<cell, iso, payload, built>>

\* What the handlers of scrapper_api.py, run in sequence, leave alone.
nonSeqVars == <<pgVars, concVars, fsVars, pureVars>>

\* The worker threads of the server (sync handlers run in a thread pool).
Threads == {1, 2}

\* A thread's locals before a request: pc, where the handler stands; op,
\* force, url, tribe, sid: the request; at: now as get_data read it; rows:
\* the list the handler read; merged: the list its round built; ret and
\* hit: what a get returned and whether from the cache.  History: id, the
\* request's number; need, retVer when the request began; ver, regVer when
\* rows was read; tsBy, the round whose ts the cache test read; retBy and
\* retVer, the round that built the returned list and the ver of its rows.
Idle ==
    [ pc |-> "idle", op |-> "none", force |-> FALSE, url |-> "", tribe |-> "",
      sid |-> "", at |-> 0, rows |-> <<>>, merged |-> <<>>, ret |-> <<>>,
      hit |-> FALSE, id |-> 0, need |-> 0, ver |-> 0, tsBy |-> 0, retBy |-> 0,
      retVer |-> 0 ]

\* The lists a seed (SOURCES_JSON, or a sources file found at start-up) may
\* hold: empty; the same url twice (once with whitespace, with no id and no
\* created_ts); two urls carrying the same explicit id; a row with no url.
SeedLists ==
    { <<>>,
      << [id |-> "", url |-> " a", tribe |-> "u", created_ts |-> 0],
         [id |-> "x1", url |-> "a", tribe |-> "t", created_ts |-> 1] >>,
      << [id |-> "x1", url |-> "b", tribe |-> "t", created_ts |-> 1],
         [id |-> "x1", url |-> "a", tribe |-> "T", created_ts |-> 1] >>,
      << [id |-> "", url |-> "", tribe |-> "t", created_ts |-> 0] >> }

\* SOURCES_JSON: unset (""), set to text that is not a JSON list, or a list.
SeedConfigs ==
    { [kind |-> "unset", rows |-> <<>>], [kind |-> "invalid", rows |-> <<>>] }
    \cup { [kind |-> "list", rows |-> s] : s \in SeedLists }

\* SOURCES_FILE at start-up: absent, not parseable, or a list.
InitFiles ==
    { [kind |-> "absent", rows |-> <<>>], [kind |-> "corrupt", rows |-> <<>>] }
    \cup { FileOf(s) : s \in SeedLists }

\* The ids sent to DELETE /sources/{sid}.
Sids == {"sha_a", "sha_b", "x1", "nope"}

\* lastOp: op, the handler; force, the get's flag; hit, a get served from
\* the cache, or a mutation that succeeded; ts and ret, the generation a get
\* returned (its timestamp, its records) or, for a mutation, the slot as it
\* was before the handler ran; rows, tried, expect, failed, nodata: the
\* targets a get's round read (for a rejected mutation, the Sources listed
\* before it), the urls it fetched, the records of its rows
\* scraped one by one, the urls whose scrape raised and those without a
\* payload; after, pwithin, pnonempty: the request before this get, whether
\* the generation that request returned (or invalidated) is younger than
\* the TTL now, and whether it held records; url, tribe, sid: the
\* mutation's arguments; was, others: whether sid was listed when the delete
\* began, and the urls of the rows with another id; age: how old the
\* generation served from the cache was at the call.
NoOp ==
    [ op |-> "none", force |-> FALSE, hit |-> FALSE, ts |-> 0, ret |-> <<>>,
      rows |-> <<>>, tried |-> <<>>, expect |-> <<>>, failed |-> {},
      nodata |-> {}, after |-> "none", pwithin |-> FALSE, pnonempty |-> FALSE,
      url |-> "", tribe |-> "", sid |-> "", was |-> FALSE, others |-> {},
      age |-> 0 ]

\* How a later request remembers the request before it.
OpTag(o) ==
    CASE o.op = "get" /\ o.force  -> "get_force"
      [] o.op = "get" /\ ~o.force -> "get"
      [] o.op \in {"add", "delete"} /\ o.hit  -> o.op
      [] o.op \in {"add", "delete"} /\ ~o.hit -> "rejected"
      [] OTHER -> "none"

\* list_sources() as a request would see it now.
ListNow == ReadRows(sourcesJson, file, now)

\* (id, url, tribe) of each row, in order: the Sources registered.
Registered(rows) ==
    [i \in 1..Len(rows) |-> <<rows[i].id, rows[i].url, rows[i].tribe>>]

\* (url, tribe) of each row, in order: what a scrape round is run over.
Targets(rows) == [i \in 1..Len(rows) |-> <<rows[i].url, rows[i].tribe>>]

\* What the pages of the urls of rows may be when a round fetches them (a
\* url that is not fetched has no page: "no_payload" stands for it).
PagesOf(rows) ==
    { pg \in [Urls -> Pages] :
        \A u \in Urls : (\A i \in 1..Len(rows) : rows[i].url # u) => pg[u] = "no_payload" }

\* scrape_one of each row on its own.
Solo(rows, pages) ==
    [i \in 1..Len(rows) |-> ScrapeOne(rows[i].url, rows[i].tribe, pages[rows[i].url])]

\* The records of the rows whose scrape does not raise, row by row.
RECURSIVE Flatten(_)
Flatten(solo) ==
    IF solo = <<>> THEN <<>>
    ELSE (IF Head(solo).raised THEN <<>> ELSE Head(solo).recs) \o Flatten(Tail(solo))

\* The urls of the rows whose page holds no decodable payload.
Undecoded(rows, pages) ==
    {rows[i].url : i \in {j \in 1..Len(rows) : pages[rows[j].url] = "no_payload"}}

\* The urls of the rows whose scrape raises.
Failing(rows, pages) ==
    {rows[i].url : i \in {j \in 1..Len(rows) :
                             ScrapeOne(rows[j].url, rows[j].tribe, pages[rows[j].url]).raised}}

Init ==
    /\ now = StartTime
    /\ cache = [ts |-> 0, data |-> <<>>]
    /\ sourcesJson \in SeedConfigs
    /\ file \in InitFiles
    /\ lastOp = NoOp
    /\ pgTable = {}
    /\ pgNext = 0
    /\ thr = [t \in Threads |-> Idle]
    /\ ncalls = 0
    /\ tag = [tsBy |-> 0, dataBy |-> 0, dataVer |-> 0]
    /\ regVer = 0
    /\ retVer = 0
    /\ wr = [pc |-> "idle", op |-> "none", queue |-> <<>>]
    /\ tmp = [kind |-> "none", rows |-> <<>>, synced |-> FALSE]
    /\ wold = file
    /\ wnew = <<>>
    /\ lastFault = "none"
    /\ cell = NoCell
    /\ iso = NotDecoded
    /\ payload = NoPayload
    /\ built = NotBuilt

(* ---------------------- handlers, one at a time ------------------------ *)

\* time passes between requests
Tick ==
    /\ now < MaxTime
    /\ now' = now + 1
    /\ UNCHANGED <<cache, sourcesJson, file, lastOp>>
    /\ UNCHANGED nonSeqVars

\* GET /sources
SourcesList ==
    /\ file' = FileAfterRead(sourcesJson, file, now)
    /\ UNCHANGED <<now, cache, sourcesJson, lastOp>>
    /\ UNCHANGED nonSeqVars

\* POST /sources {url, tribe}
SourcesAdd(rawUrl, rawTribe) ==
    \E rows \in {ReadRows(sourcesJson, file, now)} :
    LET url   == Strip(rawUrl)
        tribe == Strip(rawTribe)
    IN  IF url = ""
        THEN \* HTTPException(400)
             /\ lastOp' = [NoOp EXCEPT !.op = "add", !.hit = FALSE,
                                       !.ts = cache.ts, !.ret = cache.data,
                                       !.rows = Registered(rows)]
             /\ UNCHANGED <<now, cache, sourcesJson, file>>
             /\ UNCHANGED nonSeqVars
        ELSE /\ file' = WriteSourcesFile(AddRows(rows, url, tribe, now), now)
             /\ cache' = InvalidateData(cache)
             /\ lastOp' = [NoOp EXCEPT !.op = "add", !.hit = TRUE,
                                       !.ts = cache.ts, !.ret = cache.data,
                                       !.url = url, !.tribe = tribe]
             /\ UNCHANGED <<now, sourcesJson>>
             /\ UNCHANGED nonSeqVars

\* DELETE /sources/{sid}
SourcesDelete(sid) ==
    \E rows \in {ReadRows(sourcesJson, file, now)} :
    LET new  == DeleteRows(rows, sid)
        was  == \E i \in 1..Len(rows) : rows[i].id = sid
        oth  == {rows[i].url : i \in {j \in 1..Len(rows) : rows[j].id # sid}}
    IN  IF Len(new) = Len(rows)
        THEN \* delete_source returns False: HTTPException(404)
             /\ file' = FileAfterRead(sourcesJson, file, now)
             /\ lastOp' = [NoOp EXCEPT !.op = "delete", !.hit = FALSE,
                                       !.ts = cache.ts, !.ret = cache.data,
                                       !.sid = sid, !.was = was, !.others = oth,
                                       !.rows = Registered(rows)]
             /\ UNCHANGED <<now, cache, sourcesJson>>
             /\ UNCHANGED nonSeqVars
        ELSE /\ file' = WriteSourcesFile(new, now)
             /\ cache' = InvalidateData(cache)
             /\ lastOp' = [NoOp EXCEPT !.op = "delete", !.hit = TRUE,
                                       !.ts = cache.ts, !.ret = cache.data,
                                       !.sid = sid, !.was = was, !.others = oth]
             /\ UNCHANGED <<now, sourcesJson>>
             /\ UNCHANGED nonSeqVars

\* GET /data?force=...
GetData(force) ==
    IF CacheHit(force, now, cache)
    THEN /\ lastOp' = [NoOp EXCEPT !.op = "get", !.force = force, !.hit = TRUE,
                                   !.ts = cache.ts, !.ret = cache.data,
                                   !.age = now - cache.ts,
                                   !.after = OpTag(lastOp),
                                   !.pwithin = (now - lastOp.ts) < CACHE_TTL,
                                   !.pnonempty = lastOp.ret # <<>>]
         /\ UNCHANGED <<now, cache, sourcesJson, file>>
         /\ UNCHANGED nonSeqVars
    ELSE \E rows \in {ReadRows(sourcesJson, file, now)} :
         \E pages \in PagesOf(rows) :
         \E round \in {Round(rows, pages)} :
         LET merged == round.merged
         IN  /\ file' = FileAfterRead(sourcesJson, file, now)
             /\ cache' = PublishData(PublishTs(cache, now), merged)
             /\ lastOp' = [NoOp EXCEPT !.op = "get", !.force = force, !.hit = FALSE,
                                       !.ts = now, !.ret = merged,
                                       !.rows = Targets(rows),
                                       !.tried = round.tried,
                                       !.expect = Flatten(Solo(rows, pages)),
                                       !.failed = Failing(rows, pages),
                                       !.after = OpTag(lastOp),
                                       !.nodata = Undecoded(rows, pages),
                                       !.pwithin = (now - lastOp.ts) < CACHE_TTL,
                                       !.pnonempty = lastOp.ret # <<>>]
             /\ UNCHANGED <<now, sourcesJson>>
             /\ UNCHANGED nonSeqVars

Next ==
    \/ Tick
    \/ SourcesList
    \/ \E u \in RawUrls, g \in AddTribes : SourcesAdd(u, g)
    \/ \E sid \in Sids : SourcesDelete(sid)
    \/ \E force \in BOOLEAN : GetData(force)

vars == <<seqVars, pgVars, concVars, fsVars, pureVars>>

Spec == Init /\ [][Next]_vars


\* GET /export.xlsx?force=...: with force set or nothing cached it calls
\* get_data(force=True) (lines 413-414); then it writes out _cache["data"]
\* (line 415).
ExportExcel(force) ==
    IF force \/ cache.data = <<>>
    THEN \E rows \in {ReadRows(sourcesJson, file, now)} :
         \E pages \in PagesOf(rows) :
         \E round \in {Round(rows, pages)} :
             /\ file' = FileAfterRead(sourcesJson, file, now)
             /\ cache' = PublishData(PublishTs(cache, now), round.merged)
             /\ lastOp' = [NoOp EXCEPT !.op = "export", !.force = force,
                                       !.hit = FALSE, !.ts = now,
                                       !.ret = round.merged]
             /\ UNCHANGED <<now, sourcesJson>>
             /\ UNCHANGED nonSeqVars
    ELSE /\ lastOp' = [NoOp EXCEPT !.op = "export", !.force = force,
                                   !.hit = TRUE, !.ts = cache.ts,
                                   !.ret = cache.data, !.age = now - cache.ts]
         /\ UNCHANGED <<now, cache, sourcesJson, file>>
         /\ UNCHANGED nonSeqVars

\* The handlers in sequence, the export among them, with SOURCES_JSON unset.
InitExport == Init /\ sourcesJson.kind = "unset"

NextExport ==
    \/ Next
    \/ \E force \in BOOLEAN : ExportExcel(force)

SpecExport == InitExport /\ [][NextExport]_vars

(* ------------------------ Postgres registry ---------------------------- *)

\* The row init_and_seed and add_source insert: id is the uuid's number.
PgRow(n, url, tribe, t) ==
    [id |-> n, url |-> Strip(url), tribe |-> Strip(tribe), created_ts |-> t]

\* order by created_ts, id
PgBefore(x, y) ==
    x.created_ts < y.created_ts \/ (x.created_ts = y.created_ts /\ x.id <= y.id)

RECURSIVE PgOrdered(_)
PgOrdered(rows) ==
    IF rows = {} THEN <<>>
    ELSE LET first == CHOOSE x \in rows : \A y \in rows : PgBefore(x, y)
         IN  <<first>> \o PgOrdered(rows \ {first})

\* list_sources() of storage_pg
PgList == PgOrdered(pgTable)

\* The default_source arguments init_and_seed is called with.
PgDefaults == {"", "a"}

\* The seed init_and_seed builds from its arguments (lines 29-36): the
\* dicts of sources_json when it parses to a list, else the default source
\* when one is given.
PgSeed(default_source, sj) ==
    LET seed == IF sj.kind = "list" THEN sj.rows ELSE <<>>
    IN  IF seed = <<>> /\ default_source # ""
        THEN << [id |-> "", url |-> default_source, tribe |-> "", created_ts |-> 0] >>
        ELSE seed

\* init_and_seed(default_source, sources_json), with SOURCES_JSON as its
\* sources_json: it seeds a table that holds no row.
PgInitAndSeed(default_source) ==
    LET seed == PgSeed(default_source, sourcesJson)
    IN  /\ pgTable = {} => pgNext + Len(seed) <= MaxUuids
        /\ IF pgTable = {}
           THEN /\ pgTable' = {PgRow(pgNext + i, seed[i].url, seed[i].tribe, now) :
                                  i \in 1..Len(seed)}
                /\ pgNext' = pgNext + Len(seed)
           ELSE UNCHANGED pgVars
        /\ UNCHANGED <<seqVars, concVars, fsVars, pureVars>>

\* add_source(url, tribe) of storage_pg: one insert with a fresh uuid.
PgAddSource(url, tribe) ==
    /\ pgNext < MaxUuids
    /\ pgTable' = pgTable \cup {PgRow(pgNext + 1, url, tribe, now)}
    /\ pgNext' = pgNext + 1
    /\ UNCHANGED <<seqVars, concVars, fsVars, pureVars>>

\* delete_source(sid) of storage_pg: delete from sources where id = sid.
PgDeleteSource(sid) ==
    /\ pgTable' = {r \in pgTable : r.id # sid}
    /\ UNCHANGED <<pgNext, seqVars, concVars, fsVars, pureVars>>

\* The urls add_source of storage_pg is called with: those of RawUrls and
\* "rel", text that is not an absolute url (a bare path).
PgAddUrls == RawUrls \cup {"rel"}

\* The Postgres deployment keeps no sources file.
InitPg == Init /\ file.kind = "absent"

NextPg ==
    \/ Tick
    \/ \E d \in PgDefaults : PgInitAndSeed(d)
    \/ \E u \in PgAddUrls, g \in AddTribes : PgAddSource(u, g)
    \/ \E sid \in 1..MaxUuids : PgDeleteSource(sid)

SpecPg == InitPg /\ [][NextPg]_vars

(* ------------------ handlers on concurrent threads --------------------- *)

\* A thread is free to take a request.
Free(t) == thr[t].pc \in {"idle", "done"} /\ ncalls < MaxCalls

\* get_data begins: now = time.time() (line 375); with force set the cache
\* test of line 376 stops at "not force" and reads nothing.
CallGet(t, force) ==
    /\ Free(t)
    /\ ncalls' = ncalls + 1
    /\ thr' = [thr EXCEPT ![t] =
                 [Idle EXCEPT !.pc = IF force THEN "g_list" ELSE "g_ts",
                              !.op = "get", !.force = force, !.at = now,
                              !.id = ncalls + 1, !.need = retVer]]
    /\ UNCHANGED <<seqVars, pgVars, fsVars, pureVars, tag, regVer, retVer>>

\* line 376: (now - float(_cache.get("ts", 0))) < CACHE_TTL
GetReadTs(t) ==
    /\ thr[t].pc = "g_ts"
    /\ thr' = [thr EXCEPT ![t].tsBy = tag.tsBy,
                          ![t].pc = IF (thr[t].at - cache.ts) < CACHE_TTL
                                    THEN "g_data" ELSE "g_list"]
    /\ UNCHANGED <<seqVars, pgVars, fsVars, pureVars, ncalls, tag, regVer, retVer>>

\* line 376: isinstance(_cache.get("data"), list) and _cache["data"]; the
\* value is always a list, so only the second read decides.
GetReadData(t) ==
    /\ thr[t].pc = "g_data"
    /\ thr' = [thr EXCEPT ![t].pc = IF cache.data # <<>> THEN "g_ret" ELSE "g_list"]
    /\ UNCHANGED <<seqVars, pgVars, fsVars, pureVars, ncalls, tag, regVer, retVer>>

\* line 377: return _cache["data"]
GetReturnHit(t) ==
    /\ thr[t].pc = "g_ret"
    /\ thr' = [thr EXCEPT ![t].pc = "done", ![t].hit = TRUE,
                          ![t].ret = cache.data, ![t].retBy = tag.dataBy,
                          ![t].retVer = tag.dataVer]
    /\ UNCHANGED <<seqVars, pgVars, fsVars, pureVars, ncalls, tag, regVer, retVer>>

\* line 379: list_sources()
GetList(t) ==
    /\ thr[t].pc = "g_list"
    /\ thr' = [thr EXCEPT ![t].pc = "g_scrape", ![t].ver = regVer,
                          ![t].rows = ReadRows(sourcesJson, file, now)]
    /\ file' = FileAfterRead(sourcesJson, file, now)
    /\ UNCHANGED <<now, cache, sourcesJson, lastOp, pgVars, fsVars, pureVars, ncalls, tag, regVer, retVer>>

\* lines 379-384: the loop over the sources; it touches no shared state.
GetScrape(t, pages) ==
    /\ thr[t].pc = "g_scrape"
    /\ pages \in PagesOf(thr[t].rows)
    /\ thr' = [thr EXCEPT ![t].pc = "g_pub_ts", ![t].rows = <<>>,
                          ![t].merged = Round(thr[t].rows, pages).merged]
    /\ UNCHANGED <<seqVars, pgVars, fsVars, pureVars, ncalls, tag, regVer, retVer>>

\* line 385: _cache["ts"] = now
GetPublishTs(t) ==
    /\ thr[t].pc = "g_pub_ts"
    /\ cache' = PublishTs(cache, thr[t].at)
    /\ tag' = [tag EXCEPT !.tsBy = thr[t].id]
    /\ thr' = [thr EXCEPT ![t].pc = "g_pub_data"]
    /\ UNCHANGED <<now, sourcesJson, file, lastOp, pgVars, fsVars, pureVars, ncalls, regVer, retVer>>

\* lines 386-387: _cache["data"] = merged; return merged
GetPublishData(t) ==
    /\ thr[t].pc = "g_pub_data"
    /\ cache' = PublishData(cache, thr[t].merged)
    /\ tag' = [tag EXCEPT !.dataBy = thr[t].id, !.dataVer = thr[t].ver]
    /\ thr' = [thr EXCEPT ![t].pc = "done", ![t].hit = FALSE,
                          ![t].ret = thr[t].merged, ![t].retBy = thr[t].id,
                          ![t].retVer = thr[t].ver,
                          ![t].rows = <<>>, ![t].merged = <<>>]
    /\ UNCHANGED <<now, sourcesJson, file, lastOp, pgVars, fsVars, pureVars, ncalls, regVer, retVer>>

\* sources_add begins (lines 359-361) and add_source reads the rows (line
\* 149); an empty url is answered 400.
CallAdd(t, rawUrl, rawTribe) ==
    /\ Free(t)
    /\ ncalls' = ncalls + 1
    /\ IF Strip(rawUrl) = ""
       THEN /\ thr' = [thr EXCEPT ![t] = [Idle EXCEPT !.pc = "done", !.op = "add",
                                                      !.id = ncalls + 1]]
            /\ UNCHANGED file
       ELSE /\ thr' = [thr EXCEPT ![t] =
                        [Idle EXCEPT !.pc = "a_write", !.op = "add",
                                     !.url = Strip(rawUrl), !.tribe = Strip(rawTribe),
                                     !.id = ncalls + 1, !.ver = regVer,
                                     !.rows = ReadRows(sourcesJson, file, now)]]
            /\ file' = FileAfterRead(sourcesJson, file, now)
    /\ UNCHANGED <<now, cache, sourcesJson, lastOp, pgVars, fsVars, pureVars, tag, regVer, retVer>>

\* add_source, lines 151-154: the rows read, with the new row, are written.
AddWrite(t) ==
    /\ thr[t].pc = "a_write"
    /\ file' = WriteSourcesFile(AddRows(thr[t].rows, thr[t].url, thr[t].tribe, now), now)
    /\ regVer' = regVer + 1
    /\ thr' = [thr EXCEPT ![t].pc = "invalidate", ![t].ver = regVer + 1,
                          ![t].rows = <<>>]
    /\ UNCHANGED <<now, cache, sourcesJson, lastOp, pgVars, fsVars, pureVars, ncalls, tag, retVer>>

\* sources_delete begins and delete_source reads the rows (lines 158-160);
\* an id that is not among them is answered 404.
CallDelete(t, sid) ==
    /\ Free(t)
    /\ ncalls' = ncalls + 1
    /\ \E rows \in {ReadRows(sourcesJson, file, now)} :
         /\ thr' = [thr EXCEPT ![t] =
                      [Idle EXCEPT !.pc = IF Len(DeleteRows(rows, sid)) = Len(rows)
                                          THEN "done" ELSE "d_write",
                                   !.op = "delete", !.sid = sid, !.id = ncalls + 1,
                                   !.ver = regVer,
                                   !.rows = IF Len(DeleteRows(rows, sid)) = Len(rows)
                                            THEN <<>> ELSE DeleteRows(rows, sid)]]
         /\ file' = FileAfterRead(sourcesJson, file, now)
    /\ UNCHANGED <<now, cache, sourcesJson, lastOp, pgVars, fsVars, pureVars, tag, regVer, retVer>>

\* delete_source, line 161: the rows left are written.
DeleteWrite(t) ==
    /\ thr[t].pc = "d_write"
    /\ file' = WriteSourcesFile(thr[t].rows, now)
    /\ regVer' = regVer + 1
    /\ thr' = [thr EXCEPT ![t].pc = "invalidate", ![t].ver = regVer + 1,
                          ![t].rows = <<>>]
    /\ UNCHANGED <<now, cache, sourcesJson, lastOp, pgVars, fsVars, pureVars, ncalls, tag, retVer>>

\* lines 363-364 and 369-370: _cache["data"] = []; return
Invalidate(t) ==
    /\ thr[t].pc = "invalidate"
    /\ cache' = InvalidateData(cache)
    /\ tag' = [tag EXCEPT !.dataBy = 0, !.dataVer = thr[t].ver]
    /\ retVer' = IF thr[t].ver > retVer THEN thr[t].ver ELSE retVer
    /\ thr' = [thr EXCEPT ![t].pc = "done", ![t].hit = TRUE]
    /\ UNCHANGED <<now, sourcesJson, file, lastOp, pgVars, fsVars, pureVars, ncalls, regVer>>

\* The concurrent runs start from a fresh deployment: no SOURCES_JSON and
\* no sources file, so the registry is DEFAULT_SOURCES.
InitConc ==
    /\ Init
    /\ sourcesJson.kind = "unset"
    /\ file.kind = "absent"

\* The requests the concurrent threads make.
ConcAdds == { <<"b", "t">>, <<"", "t">> }

ConcSids == {"sha_a", "nope"}

NextConc ==
    \/ Tick
    \/ \E t \in Threads, force \in BOOLEAN : CallGet(t, force)
    \/ \E t \in Threads : GetReadTs(t)
    \/ \E t \in Threads : GetReadData(t)
    \/ \E t \in Threads : GetReturnHit(t)
    \/ \E t \in Threads : GetList(t)
    \/ \E t \in Threads, pages \in [Urls -> Pages] : GetScrape(t, pages)
    \/ \E t \in Threads : GetPublishTs(t)
    \/ \E t \in Threads : GetPublishData(t)
    \/ \E t \in Threads, a \in ConcAdds : CallAdd(t, a[1], a[2])
    \/ \E t \in Threads : AddWrite(t)
    \/ \E t \in Threads, sid \in ConcSids : CallDelete(t, sid)
    \/ \E t \in Threads : DeleteWrite(t)
    \/ \E t \in Threads : Invalidate(t)

SpecConc == InitConc /\ [][NextConc]_vars

(* ------------------- _atomic_write_json step by step ------------------ *)

\* Mutant of OpenTemp: the list is written into the sources file itself,
\* open(path, "w"), which empties it first.
OpenInPlace(f) ==
    [ file |-> [kind |-> "corrupt", rows |-> <<>>],
      tmp  |-> [kind |-> "empty", rows |-> <<>>, synced |-> FALSE] ]

\* line 69: NamedTemporaryFile("w", delete=False, dir=d) makes a new, empty
\* file beside the sources file f and leaves f alone.
OpenTemp(f) ==
    [ file |-> f,
      tmp  |-> [kind |-> "empty", rows |-> <<>>, synced |-> FALSE] ]

\* line 70: json.dump writes the text piece by piece; until the last piece
\* the temp file t holds text that does not parse.
DumpSome(t) == [t EXCEPT !.kind = "partial"]

\* line 70 done: the temp file holds the whole text of rows.
DumpAll(t, rows) == [t EXCEPT !.kind = "list", !.rows = rows]

\* line 71: tmp.flush(); os.fsync(tmp.fileno()).
Fsync(t) == [t EXCEPT !.synced = TRUE]

\* line 73: os.replace(tmp_path, path): the sources file becomes whatever
\* the temp file t holds, in one step.
Promote(t) ==
    IF t.kind = "list" THEN FileOf(t.rows)
    ELSE [kind |-> "corrupt", rows |-> <<>>]

NoTmp == [kind |-> "none", rows |-> <<>>, synced |-> FALSE]

WrIdle == [pc |-> "idle", op |-> "none", queue |-> <<>>]

\* The writes a handler makes, in order: _read_sources_file writes the rows
\* it read when no file exists (line 135); then comes the handler's own
\* _write_sources_file, if it has one.
ReadWrites(rows) == IF file.kind = "absent" THEN <<rows>> ELSE <<>>

\* A handler starts with the list ws of the writes it will make.
FsBegin(op, ws) ==
    /\ wr.pc = "idle"
    /\ IF ws = <<>>
       THEN UNCHANGED fsVars
       ELSE /\ wr' = [pc |-> "create", op |-> op, queue |-> ws]
            /\ wold' = file
            /\ wnew' = Head(ws)
            /\ lastFault' = "none"
            /\ UNCHANGED tmp
    /\ UNCHANGED <<seqVars, pgVars, concVars, pureVars>>

\* GET /sources
FsList ==
    \E rows \in {ReadRows(sourcesJson, file, now)} :
        FsBegin("list", ReadWrites(rows))

\* POST /sources {url, tribe}
FsAdd(rawUrl, rawTribe) ==
    \E rows \in {ReadRows(sourcesJson, file, now)} :
        IF Strip(rawUrl) = ""
        THEN FsBegin("add400", <<>>)
        ELSE FsBegin("add", ReadWrites(rows) \o
                 << EnsureRows(AddRows(rows, Strip(rawUrl), Strip(rawTribe),
                                       now), now) >>)

\* DELETE /sources/{sid}
FsDelete(sid) ==
    \E rows \in {ReadRows(sourcesJson, file, now)} :
        IF Len(DeleteRows(rows, sid)) = Len(rows)
        THEN FsBegin("delete404", ReadWrites(rows))
        ELSE FsBegin("delete", ReadWrites(rows) \o
                 << EnsureRows(DeleteRows(rows, sid), now) >>)

\* line 69
FsCreate ==
    /\ wr.pc = "create"
    /\ file' = OpenTemp(file).file
    /\ tmp' = OpenTemp(file).tmp
    /\ wr' = [wr EXCEPT !.pc = "dump"]
    /\ UNCHANGED <<now, cache, sourcesJson, lastOp, pgVars, concVars, pureVars,
                   wold, wnew, lastFault>>

\* line 70, the first pieces
FsDumpSome ==
    /\ wr.pc = "dump"
    /\ tmp' = DumpSome(tmp)
    /\ wr' = [wr EXCEPT !.pc = "dump2"]
    /\ UNCHANGED <<seqVars, pgVars, concVars, pureVars, wold, wnew, lastFault>>

\* line 70, the last piece
FsDumpAll ==
    /\ wr.pc = "dump2"
    /\ tmp' = DumpAll(tmp, Head(wr.queue))
    /\ wr' = [wr EXCEPT !.pc = "flush"]
    /\ UNCHANGED <<seqVars, pgVars, concVars, pureVars, wold, wnew, lastFault>>

\* line 71
FsFlush ==
    /\ wr.pc = "flush"
    /\ tmp' = Fsync(tmp)
    /\ wr' = [wr EXCEPT !.pc = "replace"]
    /\ UNCHANGED <<seqVars, pgVars, concVars, pureVars, wold, wnew, lastFault>>

\* line 73; then the handler's next write, or its end: sources_add and
\* sources_delete empty the cached list once their write is done.
FsReplace ==
    /\ wr.pc = "replace"
    /\ file' = Promote(tmp)
    /\ tmp' = NoTmp
    /\ IF Len(wr.queue) > 1
       THEN /\ wr' = [wr EXCEPT !.pc = "create", !.queue = Tail(wr.queue)]
            /\ wold' = file'
            /\ wnew' = wr.queue[2]
            /\ UNCHANGED cache
       ELSE /\ wr' = WrIdle
            /\ cache' = IF wr.op \in {"add", "delete"}
                        THEN InvalidateData(cache) ELSE cache
            /\ UNCHANGED <<wold, wnew>>
    /\ UNCHANGED <<now, sourcesJson, lastOp, pgVars, concVars, pureVars, lastFault>>

\* A step of the write raises (disk full, no permission, an I/O error):
\* the handler ends with the exception; delete=False leaves the temp file.
FsFail ==
    /\ wr.pc # "idle"
    /\ lastFault' = wr.pc
    /\ wr' = WrIdle
    /\ UNCHANGED <<seqVars, pgVars, concVars, pureVars, tmp, wold, wnew>>

\* The process dies in the middle of the write and is started again: what
\* it held in memory is gone, the files are as the last step left them.
FsCrash ==
    /\ wr.pc # "idle"
    /\ lastFault' = wr.pc
    /\ wr' = WrIdle
    /\ cache' = [ts |-> 0, data |-> <<>>]
    /\ UNCHANGED <<now, sourcesJson, file, lastOp, pgVars, concVars, pureVars,
                   tmp, wold, wnew>>

NextFs ==
    \/ Tick
    \/ FsList
    \/ \E u \in RawUrls, tr \in AddTribes : FsAdd(u, tr)
    \/ \E sid \in Sids : FsDelete(sid)
    \/ FsCreate
    \/ FsDumpSome
    \/ FsDumpAll
    \/ FsFlush
    \/ FsReplace
    \/ FsFail
    \/ FsCrash

SpecFs == Init /\ [][NextFs]_vars


\* A get(force=false) that directly follows a get(force=false) while the
\* generation that one returned is younger than the TTL.
SecondGet ==
    /\ lastOp.op = "get" /\ ~lastOp.force
    /\ lastOp.after = "get" /\ lastOp.pwithin

\* C1 as stated: of two consecutive get(force=false) calls within the TTL
\* window with no add or delete between them, the second is a cache hit that
\* fetches no source, whatever the first round produced (an empty merged
\* list included).
C1_SecondGetIsAlwaysHit ==
    SecondGet => (lastOp.hit /\ lastOp.tried = <<>>)

\* C1 amended: of two consecutive get(force=false) calls within the TTL
\* window with no add or delete between them, the second is a cache hit that
\* fetches no source, provided the list the first call returned is not
\* empty.
C1_SecondGetIsHitWhenNonEmpty ==
    (SecondGet /\ lastOp.pnonempty) => (lastOp.hit /\ lastOp.tried = <<>>)

C1_Witness ==
    SecondGet /\ lastOp.pnonempty /\ lastOp.hit /\ lastOp.ret # <<>>

\* A get(force=false) that directly follows a successful add or delete.
GetAfterMutation ==
    /\ lastOp.op = "get" /\ ~lastOp.force
    /\ lastOp.after \in {"add", "delete"}

\* C2: a get(force=false) that follows a successful add or delete performs
\* a scrape round, over the source list as list() gives it after the
\* mutation, also when the generation the mutation invalidated is still
\* younger than the TTL.
C2_MutationForcesRecompute ==
    GetAfterMutation =>
        /\ ~lastOp.hit
        /\ lastOp.rows = Targets(ListNow)
        /\ lastOp.tried = [i \in 1..Len(lastOp.rows) |-> lastOp.rows[i][1]]

C2_Witness ==
    GetAfterMutation /\ lastOp.pwithin /\ lastOp.pnonempty /\ ~lastOp.hit

\* C3: in a scrape round a source whose scrape raises does not end the
\* round: every source of the list is fetched, in order, and the merged
\* list the get returns and publishes is, source by source, the records
\* each non-failing source yields scraped alone.
C3_FailureIsIsolated ==
    (lastOp.op = "get" /\ ~lastOp.hit) =>
        /\ lastOp.tried = [i \in 1..Len(lastOp.rows) |-> lastOp.rows[i][1]]
        /\ lastOp.ret = lastOp.expect
        /\ cache.data = lastOp.expect

C3_Witness ==
    /\ lastOp.op = "get" /\ ~lastOp.hit
    /\ Len(lastOp.rows) = 2
    /\ lastOp.failed = {lastOp.rows[1][1]}
    /\ lastOp.ret # <<>>

\* C4 as stated: when a source fails in a round (its scrape raises, or its
\* page holds no decodable payload), the generation the round publishes
\* carries an errors list that names the failing source's url.
C4_ErrorsAreListed ==
    (lastOp.op = "get" /\ ~lastOp.hit /\ (lastOp.failed \cup lastOp.nodata) # {}) =>
        /\ "errors" \in DOMAIN cache
        /\ \A u \in lastOp.failed \cup lastOp.nodata :
               \E i \in 1..Len(cache.errors) : cache.errors[i][1] = u

\* The rows of list() now that have the given url.
Listed(url) == {i \in 1..Len(ListNow) : ListNow[i].url = url}

\* C6 as stated: once add(url, g) has returned a Source, list() holds
\* exactly one Source with that url, and its group label is g, whether or
\* not SOURCES_JSON is set and whether or not the sources file existed.
C6_AddedSourceIsListed ==
    (lastOp.op = "add" /\ lastOp.hit) =>
        /\ Cardinality(Listed(lastOp.url)) = 1
        /\ \A i \in Listed(lastOp.url) : ListNow[i].tribe = lastOp.tribe

\* C7 as stated: delete(id) succeeds exactly when a Source with that id is
\* listed when it is called (and is answered 404 otherwise); after a
\* successful delete no listed Source has that id, and every Source with
\* another id is still listed.
C7_DeleteRemovesExactlyTheId ==
    (lastOp.op = "delete") =>
        /\ lastOp.hit = lastOp.was
        /\ lastOp.hit =>
              /\ \A i \in 1..Len(ListNow) : ListNow[i].id # lastOp.sid
              /\ \A u \in lastOp.others : Listed(u) # {}


(* ----------------------- claims on both registries --------------------- *)

\* No two rows of a list have the same url.
NoDupUrl(rows) ==
    \A i, j \in 1..Len(rows) : rows[i].url = rows[j].url => i = j

\* C5 as stated: after any sequence of adds and deletes, from any seed,
\* list() holds no two Sources with the same url, in the file-backed
\* registry and in the Postgres-backed one.
C5_NoDuplicateUrl ==
    NoDupUrl(ListNow) /\ NoDupUrl(PgList)

\* The file-backed half of C5, which holds.
C5_FileHasNoDuplicateUrl == NoDupUrl(ListNow)


(* -------------------- claims on concurrent handlers -------------------- *)

\* A get that has returned from the cache.
ServedHit(t) == thr[t].pc = "done" /\ thr[t].op = "get" /\ thr[t].hit

\* C8 as stated: with gets on concurrent threads, a get that returns from
\* the cache returns the records of the very round whose timestamp it
\* tested: never a timestamp of one round with the records of another round
\* or of an invalidation.
C8_NoTornGeneration ==
    \A t \in Threads : ServedHit(t) => thr[t].retBy = thr[t].tsBy

\* C9 as stated: a get(force=false) that starts after an add or delete has
\* returned never returns from the cache a generation whose source list was
\* read before that mutation wrote the registry.
C9_NoStaleGenerationAfterMutation ==
    \A t \in Threads : ServedHit(t) => thr[t].retVer >= thr[t].need


(* ---------------------- claims on the atomic write --------------------- *)

\* A step that changes the sources file is the promotion of a temp file
\* that holds the whole new list, flushed to disk.
IsPromotion ==
    /\ wr.pc = "replace"
    /\ tmp.kind = "list"
    /\ tmp.synced
    /\ tmp.rows = wnew
    /\ file' = FileOf(wnew)

\* C10: whether a write of the source list runs to its end, raises or is
\* cut by a crash at any of its steps, the sources file holds the complete
\* list it held when the write began or the complete new list, never an
\* empty or cut one; and the file changes only by the one promotion of a
\* fully written temp file.
C10_WriteIsCrashSafe ==
    [][ /\ file' \in {wold', FileOf(wnew')}
        /\ (file' # file => IsPromotion) ]_vars

\* A write of a new list broke off while the temp file held half of the
\* text, and the sources file still holds the whole previous list.
C10_Witness ==
    /\ lastFault = "dump2"
    /\ tmp.kind = "partial"
    /\ file.kind = "list"
    /\ file = wold
    /\ FileOf(wnew) # file


(* --------------------------- claims on seeding ------------------------- *)

\* C11 as stated: with an empty durable store (no sources file, no row in
\* the sources table) the registry is seeded so that the first list()
\* returns at least one Source, whatever SOURCES_JSON holds and whether
\* default_source is given or empty.
C11_FreshStoreIsSeeded ==
    /\ file.kind = "absent" => ListNow # <<>>
    /\ pgTable = {} => \A d \in PgDefaults : PgSeed(d, sourcesJson) # <<>>


(* --------------------------- claims on list() -------------------------- *)

\* The order of the ids of the file-backed registry as text.
IdOrd(id) ==
    CASE id = "sha_a" -> 1 [] id = "sha_b" -> 2 [] id = "sha_other" -> 3
      [] id = "x1" -> 4 [] OTHER -> 0

\* rows, a list of the file-backed registry, is in the order of created_ts
\* and, among equal created_ts, of id.
FileByCreation(rows) ==
    \A i, j \in 1..Len(rows) :
        i < j => \/ rows[i].created_ts < rows[j].created_ts
                 \/ /\ rows[i].created_ts = rows[j].created_ts
                    /\ IdOrd(rows[i].id) <= IdOrd(rows[j].id)

\* The same of a list of the Postgres-backed registry.
PgByCreation(rows) ==
    \A i, j \in 1..Len(rows) : i < j => PgBefore(rows[i], rows[j])

\* C12 as stated: after any sequence of adds and deletes list() returns
\* the Sources ordered by created_at ascending, ties broken by id, in the
\* file-backed registry and in the Postgres-backed one.
C12_ListIsOrderedByCreation ==
    FileByCreation(ListNow) /\ PgByCreation(PgList)

\* The Postgres-backed half of C12, which holds.
C12_PgListIsOrderedByCreation == PgByCreation(PgList)


(* ---------------------------- claims on urls --------------------------- *)

\* Of the url strings of the model, "a" and "b" stand for absolute http(s)
\* urls; "" and "rel" do not.
AbsoluteHttp(u) == u \in {"a", "b"}

\* C13 as stated: every Source that list() returns or that the store holds
\* has a non-empty, absolute http(s) url, in the file-backed registry and
\* in the Postgres-backed one: an add or a seed entry with another url is
\* never stored.
C13_UrlsAreAbsolute ==
    /\ \A i \in 1..Len(ListNow) : AbsoluteHttp(ListNow[i].url)
    /\ \A r \in pgTable : AbsoluteHttp(r.url)

\* What the file-backed registry does keep: no listed Source has an empty
\* url.
C13_FileUrlsAreNonEmpty ==
    \A i \in 1..Len(ListNow) : ListNow[i].url # ""


(* ----------------------------- claims on ids --------------------------- *)

\* No two rows of a list share an id.
UniqueIds(rows) ==
    \A i, j \in 1..Len(rows) : i # j => rows[i].id # rows[j].id

\* A url listed in before and in after has the same id in both.
SameIds(before, after) ==
    \A i \in 1..Len(before), j \in 1..Len(after) :
        before[i].url = after[j].url => before[i].id = after[j].id

\* C14 as stated: no two listed Sources share an id, and the id of the
\* Source of a url does not change over any request while the url stays
\* registered, a re-add of the url included, and an entry loaded with an id
\* of its own included.
C14_IdsAreUniqueAndStable ==
    [][ UniqueIds(ListNow') /\ SameIds(ListNow, ListNow') ]_vars

\* The uniqueness half of C14 alone.
C14_IdsAreUnique == UniqueIds(ListNow)

\* The stability half of C14 alone.
C14_IdsAreStable == [][ SameIds(ListNow, ListNow') ]_vars


(* ------------------- the pure functions, one call each ----------------- *)

\* The state of the program that a call of a pure function leaves alone:
\* a fresh deployment.
InitPure ==
    /\ now = StartTime
    /\ cache = [ts |-> 0, data |-> <<>>]
    /\ sourcesJson = [kind |-> "unset", rows |-> <<>>]
    /\ file = [kind |-> "absent", rows |-> <<>>]
    /\ lastOp = NoOp
    /\ pgTable = {}
    /\ pgNext = 0
    /\ thr = [t \in Threads |-> Idle]
    /\ ncalls = 0
    /\ tag = [tsBy |-> 0, dataBy |-> 0, dataVer |-> 0]
    /\ regVer = 0
    /\ retVer = 0
    /\ wr = WrIdle
    /\ tmp = NoTmp
    /\ wold = file
    /\ wnew = <<>>
    /\ lastFault = "none"

\* _date_from_cell is about to be called on a value of DateCells.
InitDate ==
    /\ InitPure
    /\ cell \in DateCells
    /\ iso = NotDecoded
    /\ payload = NoPayload
    /\ built = NotBuilt

\* _date_from_cell(v)
DecodeDate ==
    /\ iso = NotDecoded
    /\ iso' = DateFromCell(cell.v)
    /\ UNCHANGED <<seqVars, pgVars, concVars, fsVars, cell, payload, built>>

SpecDate == InitDate /\ [][DecodeDate]_vars

\* _rows_to_records is about to be called on a payload of Payloads.
InitRec ==
    /\ InitPure
    /\ cell = NoCell
    /\ iso = NotDecoded
    /\ payload \in Payloads
    /\ built = NotBuilt

\* _rows_to_records(payload, tribe)
BuildRecords(tribe) ==
    /\ ~built.done
    /\ built' = RowsToRecords(payload, tribe, Today)
    /\ UNCHANGED <<seqVars, pgVars, concVars, fsVars, cell, iso, payload>>

NextRec == \E tribe \in {"t"} : BuildRecords(tribe)

SpecRec == InitRec /\ [][NextRec]_vars


(* ------------------------ claims on the decoders ----------------------- *)

\* The text put together from pt is Date(Y, M, D[, ...]) with a four-digit
\* Y, M in 0..11 and a one- or two-digit D.
ValidLiteral(pt) ==
    /\ pt.lead = <<>>
    /\ pt.head = <<"D", "a", "t", "e", "(">>
    /\ Len(pt.y) = 4
    /\ Len(pt.m) \in 1..2
    /\ ToInt(pt.m) \in 0..11
    /\ Len(pt.d) \in 1..2
    /\ (pt.tail = <<>> \/ Head(pt.tail) = ",")
    /\ pt.close = <<")">>
    /\ pt.trail = <<>>

\* The text put together from pt has the shape of the constructor, read
\* widely: any one- or two-digit M, spaces around the literal allowed.
ConstructorShape(pt) ==
    /\ pt.head = <<"D", "a", "t", "e", "(">>
    /\ Len(pt.y) = 4
    /\ Len(pt.m) \in 1..2
    /\ Len(pt.d) \in 1..2
    /\ (pt.tail = <<>> \/ Head(pt.tail) = ",")
    /\ pt.close = <<")">>
    /\ pt.trail \in {<<>>, <<" ">>}

\* YYYY-MM-DD of the parts: the month one more than M.
ExpectedDate(pt) ==
    Pad(pt.y, 4) \o <<"-">> \o Pad(IntText(ToInt(pt.m) + 1), 2)
                \o <<"-">> \o Pad(pt.d, 2)

\* The first half of C16, which holds: a valid literal is decoded to
\* YYYY-MM-DD with the month M+1.
C16_ValidLiteralsDecode ==
    (iso # NotDecoded /\ cell.v.t = "str" /\ ValidLiteral(cell.parts))
        => iso = [ok |-> TRUE, s |-> ExpectedDate(cell.parts)]

\* C16 as stated: the Date Decoder returns YYYY-MM-DD with month M+1, zero
\* padded, for every Date(Y, M, D[, ...]) with a four-digit Y, M in 0..11
\* and a one- or two-digit D, and returns "not a date" for every value that
\* is not a string of the constructor shape.
C16_DateDecoder ==
    iso # NotDecoded =>
        /\ (cell.v.t = "str" /\ ValidLiteral(cell.parts))
               => iso = [ok |-> TRUE, s |-> ExpectedDate(cell.parts)]
        /\ (cell.v.t # "str" \/ ~ConstructorShape(cell.parts))
               => iso = NotADate


(* --------------------- claims on the record builder -------------------- *)

\* The last derived team label of a payload with a team column.
LastLabel(p) == LabelOf(p.cols[Len(p.cols)], Len(p.cols) - 1)

LastIsAverage(p) ==
    Len(p.cols) >= 2 /\ StripLower(LastLabel(p)) = "average"

\* C15 as stated: when the last derived team label of a payload is
\* "average" after trimming and lower-casing, no Record the builder emits
\* has that label as its team, whatever the other columns are called.
C15_NoAverageRecord ==
    (built.done /\ LastIsAverage(payload)) =>
        \A k \in 1..Len(built.recs) : built.recs[k].team # LastLabel(payload)

\* The first cell of a row cannot be decoded as a date: a null in its
\* place, no value, a value that is no string, a text of another shape.
Undecodable(cells) ==
    cells # <<>> /\ (~cells[1].dict \/ ~DateFromCell(cells[1].v).ok)

\* The records of the rows each on its own: the date of its first cell, or
\* today's when that cell is undecodable.
RECURSIVE RowByRow(_, _, _)
RowByRow(labels, rows, tribe) ==
    IF rows = <<>> THEN <<>>
    ELSE LET cells == Head(rows)
             d == IF Undecodable(cells) THEN Today
                  ELSE DateFromCell(cells[1].v).s
         IN  (IF cells = <<>> THEN <<>>
              ELSE RowRecords(labels, cells, d, tribe, 1))
             \o RowByRow(labels, Tail(rows), tribe)

\* C17 as stated: when the first cell of a row cannot be decoded as a date
\* the builder does not raise and does not drop the row: the row's records
\* carry today's date, and the records of the other rows are what they
\* would be without it.
C17_UndatedRowIsKept ==
    ( /\ built.done
      /\ payload.cols # <<>>
      /\ \E i \in 1..Len(payload.rows) : Undecodable(payload.rows[i]) )
    => /\ ~built.raised
       /\ built.recs = RowByRow(TeamLabels(payload.cols), payload.rows, "t")

\* C17 without the null cell, which holds: a first cell that is a dict
\* whose value is absent, no string or a text of another shape.
C17_UndatedDictRowIsKept ==
    ( /\ built.done
      /\ payload.cols # <<>>
      /\ \E i \in 1..Len(payload.rows) : Undecodable(payload.rows[i])
      /\ \A i \in 1..Len(payload.rows) : payload.rows[i][1].dict )
    => /\ ~built.raised
       /\ built.recs = RowByRow(TeamLabels(payload.cols), payload.rows, "t")


(* ----------------- claims on concurrent registry writes ---------------- *)

\* Thread t has returned from a successful add, or delete.
Added(t) == thr[t].pc = "done" /\ thr[t].op = "add" /\ thr[t].hit
Deleted(t) == thr[t].pc = "done" /\ thr[t].op = "delete" /\ thr[t].hit

\* C18 as stated: when an add and a delete of different Sources, run on
\* separate threads in any interleaving, have both returned, list() shows
\* both: the added Source is listed and the deleted one is not.
C18_NoLostMutation ==
    \A t, u \in Threads :
        (t # u /\ Added(t) /\ Deleted(u) /\ MakeId(thr[t].url) # thr[u].sid)
        => /\ \E i \in 1..Len(ListNow) :
                  /\ ListNow[i].url = thr[t].url
                  /\ ListNow[i].tribe = thr[t].tribe
           /\ \A i \in 1..Len(ListNow) : ListNow[i].id # thr[u].sid


(* ------------------------- claims on freshness ------------------------- *)

\* C19 as stated: a record list served with force=false from the cache, by
\* get or by the export, belongs to a generation younger than the TTL at
\* the time of the call; an older generation is never served.
C19_NoStaleServe ==
    (lastOp.op \in {"get", "export"} /\ ~lastOp.force /\ lastOp.hit)
        => lastOp.age < CACHE_TTL

\* The half of C19 on get alone, which holds.
C19_GetServesFresh ==
    (lastOp.op = "get" /\ ~lastOp.force /\ lastOp.hit)
        => lastOp.age < CACHE_TTL


(* --------------------- claims on rejected mutations -------------------- *)

\* A get(force=false) that directly follows a rejected add or delete, the
\* generation in the slot before that request being younger than the TTL
\* and holding records.
GetAfterRejected ==
    /\ lastOp.op = "get" /\ ~lastOp.force
    /\ lastOp.after = "rejected"
    /\ lastOp.pwithin /\ lastOp.pnonempty

\* C20: after an add answered 400 or a delete answered 404, list() holds
\* the Sources it held before the request and the cache slot (timestamp
\* and records) is as it was before; and a get(force=false) that follows
\* within the TTL of a generation holding records is a cache hit.
C20_RejectedChangesNothing ==
    /\ (lastOp.op \in {"add", "delete"} /\ ~lastOp.hit)
          => /\ Registered(ListNow) = lastOp.rows
             /\ cache = [ts |-> lastOp.ts, data |-> lastOp.ret]
    /\ GetAfterRejected => lastOp.hit

\* A get served from the cache right after a rejected add or delete.
C20_Witness ==
    GetAfterRejected /\ lastOp.hit /\ lastOp.ret # <<>>

====